---- MODULE Spec2Model ----
(***************************************************************************)
(* Model of the swfsm decider composition (fsm/deciders.go), the          *)
(* ManagedContinuations decider built on it, and the decision-task         *)
(* dispatchers exercised by fsm/dispatcher_test.go.                        *)
(***************************************************************************)
EXTENDS Integers, Sequences, FiniteSets, TLC

VARIABLES
    deciders,   \* ComposedDecider.deciders: the ordered list of sub Deciders
    ctx,        \* the FSMContext handed to Decide
    h,          \* the swf.HistoryEvent last handed to Decide (NoEvent before)
    data,       \* the data last handed to Decide
    outcome,    \* the Outcome Decide returned (NoOutcome before)
    invoked,    \* the sub-decider invocations Decide made, in order
    typed,      \* a typed adapter: payload type, callback, construction and call results
    swf,        \* the service's view of the execution: continue timer armed, continued
    policy,     \* which DecisionTaskDispatcher is under test
    pcs,        \* per producer: 0, or the task whose handler it is running inline
    running,    \* tasks whose handler invocation is executing
    tasks,      \* the bounded dispatcher's shared queue
    workers,    \* per pool worker: 0 when waiting on the queue, else its task
    dispatched, \* tasks for which DispatchTask was called
    handled,    \* per task: how many times the handler completed for it
    tasksHandled, \* testDispatcher's atomic counter
    done,       \* whether testDispatcher's done channel was sent to
    failed,     \* tasks whose handler invocation failed
    caller      \* per task: the producer that dispatched it, 0 before

deciderVars == <<deciders, ctx, h, data, outcome, invoked, typed, swf>>
dispatchVars == <<policy, pcs, running, tasks, workers, dispatched, handled, tasksHandled, done,
                  failed, caller>>
vars == <<deciders, ctx, h, data, outcome, invoked, typed, swf,
          policy, pcs, running, tasks, workers, dispatched, handled, tasksHandled, done,
          failed, caller>>

----------------------------------------------------------------------------
(* Bounds of the model *)

MaxRules == 3        \* longest rule list given to NewComposedDecider
MaxData == 1         \* state data ranges over 0..MaxData
MaxEventID == 3      \* event ids range over 1..MaxEventID
MaxHistorySize == 2  \* historySize ranges over 0..MaxHistorySize
MaxActivities == 1   \* the registry holds 0..MaxActivities activities

Data == 0..MaxData

----------------------------------------------------------------------------
(* Events, contexts, decisions *)

ContinueTimer == "FSM.ContinueWorkflow.Timer"
ContinueSignal == "FSM.ContinueWorkflow"

EventTypeTimerFired == "TimerFired"
EventTypeWorkflowExecutionSignaled == "WorkflowExecutionSignaled"
EventTypeWorkflowExecutionStarted == "WorkflowExecutionStarted"

NoEvent == [EventType |-> "none"]
NoOutcome == [kind |-> "none"]
NoTyped == [adapter |-> "none"]
NoService == [timerArmed |-> FALSE, continued |-> FALSE]

TimerIDs == {ContinueTimer, "other-timer"}
SignalNames == {ContinueSignal, "other-signal"}

\* swf.HistoryEvent: the fields the deciders read
Events ==
    [EventType : {EventTypeTimerFired}, EventID : 1..MaxEventID,
     TimerID : TimerIDs, SignalName : {""}]
    \cup
    [EventType : {EventTypeWorkflowExecutionSignaled}, EventID : 1..MaxEventID,
     TimerID : {""}, SignalName : SignalNames]
    \cup
    [EventType : {EventTypeWorkflowExecutionStarted}, EventID : 1..MaxEventID,
     TimerID : {""}, SignalName : {""}]

StateNames == {"working", "done"}

\* FSMContext: state name, identity, and the registry of outstanding activities
Contexts ==
    [State : StateNames, WorkflowID : {"wf-1"}, RunID : {"run-1"},
     ActivitiesInfo : {1..n : n \in 0..MaxActivities}]

----------------------------------------------------------------------------
(* Outcome model *)

Pass == [kind |-> "Pass"]

ContinueOutcome(d, ds) ==
    [kind |-> "Continue", data |-> d, state |-> "", decisions |-> ds]

TransitionOutcome(d, s, ds) ==
    [kind |-> "Transition", data |-> d, state |-> s, decisions |-> ds]

CompleteOutcome(d, ds) ==
    [kind |-> "Complete", data |-> d, state |-> "", decisions |-> ds]

EmptyDecisions == <<>>

Stay(d, ds) == ContinueOutcome(d, ds)

ContinueWorkflowDecision(state) ==
    [DecisionType |-> "ContinueAsNewWorkflowExecution", State |-> state]

----------------------------------------------------------------------------
(* Sub-deciders.  A Decider is a function value in the code; here it is a   *)
(* record that Apply interprets.  type "rule" is a caller-supplied decider  *)
(* with a fixed behaviour: its outcome kind, the decisions it contributes,  *)
(* how it changes the data and (for a transition) its target state.         *)

Activity(id) == [DecisionType |-> "ScheduleActivityTask", ActivityID |-> id]

Upd(u, x) == IF u = "bump" THEN (x + 1) % (MaxData + 1) ELSE x

PassRule ==
    [type |-> "rule", kind |-> "Pass", decisions |-> <<>>, upd |-> "keep", state |-> ""]

Rules ==
    {PassRule}
    \cup [type : {"rule"}, kind : {"Continue"},
          decisions : {<<>>, <<Activity("a1")>>, <<Activity("a2"), Activity("a3")>>},
          upd : {"keep", "bump"}, state : {""}]
    \cup [type : {"rule"}, kind : {"Transition"},
          decisions : {<<Activity("a4")>>},
          upd : {"bump"}, state : StateNames]
    \cup [type : {"rule"}, kind : {"Complete"},
          decisions : {<<Activity("a5")>>},
          upd : {"keep"}, state : {""}]

RECURSIVE SeqsUpTo(_, _)
SeqsUpTo(S, n) ==
    IF n = 0 THEN {<<>>}
    ELSE LET shorter == SeqsUpTo(S, n - 1)
         IN shorter \cup {Append(s, x) : s \in {t \in shorter : Len(t) = n - 1}, x \in S}

RuleLists == SeqsUpTo(Rules, MaxRules)

\* what a caller-supplied rule returns for data x
RuleOutcome(d, x) ==
    CASE d.kind = "Pass" -> Pass
      [] d.kind = "Continue" -> ContinueOutcome(Upd(d.upd, x), d.decisions)
      [] d.kind = "Transition" -> TransitionOutcome(Upd(d.upd, x), d.state, d.decisions)
      [] d.kind = "Complete" -> CompleteOutcome(Upd(d.upd, x), d.decisions)

----------------------------------------------------------------------------
(* strconv.Itoa, as the sequence of characters it produces *)

DigitChars == <<"0", "1", "2", "3", "4", "5", "6", "7", "8", "9">>

RECURSIVE Itoa(_)
Itoa(n) ==
    IF n < 0 THEN <<"-">> \o Itoa(-n)
    ELSE IF n < 10 THEN <<DigitChars[n + 1]>>
    ELSE Itoa(n \div 10) \o <<DigitChars[(n % 10) + 1]>>

RetrySeconds == {0, 7, 30}

----------------------------------------------------------------------------
(* ManagedContinuations: its three rules *)

StartContinueTimer(timerRetrySeconds) ==
    [DecisionType |-> "StartTimer",
     StartToFireTimeout |-> Itoa(timerRetrySeconds),
     TimerID |-> ContinueTimer]

\* lines 357-375
handleContinuationTimerInverted(c, e, x, timerRetrySeconds) ==
    IF e.EventType = EventTypeTimerFired /\ e.TimerID = ContinueTimer
    THEN IF Cardinality(c.ActivitiesInfo) # 0
         THEN Stay(x, Append(EmptyDecisions, ContinueWorkflowDecision(c.State)))
         ELSE Stay(x, Append(EmptyDecisions, StartContinueTimer(timerRetrySeconds)))
    ELSE Pass

handleContinuationTimer(c, e, x, timerRetrySeconds) ==
    IF e.EventType = EventTypeTimerFired /\ e.TimerID = ContinueTimer
    THEN IF Cardinality(c.ActivitiesInfo) = 0
         THEN Stay(x, Append(EmptyDecisions, ContinueWorkflowDecision(c.State)))
         ELSE Stay(x, Append(EmptyDecisions, StartContinueTimer(timerRetrySeconds)))
    ELSE Pass

\* lines 377-397
handleContinuationSignalNoRetry(c, e, x, timerRetrySeconds) ==
    IF e.EventType = EventTypeWorkflowExecutionSignaled /\ e.SignalName = ContinueSignal
    THEN IF Cardinality(c.ActivitiesInfo) = 0
         THEN Stay(x, Append(EmptyDecisions, ContinueWorkflowDecision(c.State)))
         ELSE Stay(x, EmptyDecisions)
    ELSE Pass

handleContinuationSignal(c, e, x, timerRetrySeconds) ==
    IF e.EventType = EventTypeWorkflowExecutionSignaled /\ e.SignalName = ContinueSignal
    THEN IF Cardinality(c.ActivitiesInfo) = 0
         THEN Stay(x, Append(EmptyDecisions, ContinueWorkflowDecision(c.State)))
         ELSE Stay(x, Append(EmptyDecisions, StartContinueTimer(timerRetrySeconds)))
    ELSE Pass

\* line 400
HistoryLargeAtThreshold(e, historySize) == e.EventID >= historySize

HistoryLarge(e, historySize) == e.EventID > historySize

signalContinuationWhenHistoryLarge(c, e, x, historySize) ==
    IF HistoryLarge(e, historySize)
    THEN Stay(x, Append(EmptyDecisions,
                        [DecisionType |-> "SignalExternalWorkflowExecution",
                         SignalName |-> ContinueSignal,
                         WorkflowID |-> c.WorkflowID,
                         RunID |-> c.RunID]))
    ELSE Pass

\* the rule list ManagedContinuations hands to NewComposedDecider
ManagedContinuations(historySize, timerRetrySeconds) ==
    << [type |-> "handleContinuationTimer", timerRetrySeconds |-> timerRetrySeconds],
       [type |-> "handleContinuationSignal", timerRetrySeconds |-> timerRetrySeconds],
       [type |-> "signalContinuationWhenHistoryLarge", historySize |-> historySize] >>

----------------------------------------------------------------------------
(* ComposedDecider.Decide *)

\* line 36: the outcome is the Pass sentinel
IsPass(o) == o = Pass

\* lines 36-38: a Pass outcome is skipped, the accumulator is untouched
SkipPassTakesData(acc) == [decisions |-> acc.decisions, data |-> 0]

SkipPass(acc) == acc

\* lines 41-42: an outcome's decisions are appended, its data replaces data
ContributeOwnOnly(acc, o) ==
    [decisions |-> o.decisions, data |-> o.data]

ContributeKeepsData(acc, o) ==
    [decisions |-> acc.decisions \o o.decisions, data |-> acc.data]

Contribute(acc, o) ==
    [decisions |-> acc.decisions \o o.decisions, data |-> o.data]

\* lines 43-46: the type switch's ContinueOutcome case
KeepsGoing(o) == o.kind = "Continue"

\* lines 47-52: any other outcome ends the loop with a TransitionOutcome
Terminate(o, acc) == TransitionOutcome(acc.data, o.state, acc.decisions)

\* lines 55-58: the loop ran out of deciders
FallThroughPass(acc) ==
    IF acc.decisions = EmptyDecisions THEN Pass ELSE ContinueOutcome(acc.data, acc.decisions)

FallThrough(acc) == ContinueOutcome(acc.data, acc.decisions)

----------------------------------------------------------------------------
(* Event-matching combinators and leaf builders *)

MaxNested == 1   \* most deciders nested in one OnX combinator

EventTypeChildWorkflowExecutionStarted == "ChildWorkflowExecutionStarted"
EventTypeExternalWorkflowExecutionSignaled == "ExternalWorkflowExecutionSignaled"
EventTypeSignalExternalWorkflowExecutionFailed == "SignalExternalWorkflowExecutionFailed"
EventTypeActivityTaskCompleted == "ActivityTaskCompleted"
EventTypeActivityTaskFailed == "ActivityTaskFailed"
EventTypeActivityTaskTimedOut == "ActivityTaskTimedOut"
EventTypeActivityTaskCanceled == "ActivityTaskCanceled"

ActivityNames == {"activity-a", "activity-b"}

\* the events given to a built decider; ActivityName is the name of the
\* activity the event refers to ("" for an event that refers to none)
BuildEvents ==
    [EventType : {EventTypeWorkflowExecutionStarted, EventTypeChildWorkflowExecutionStarted,
                  EventTypeExternalWorkflowExecutionSignaled,
                  EventTypeSignalExternalWorkflowExecutionFailed},
     EventID : {1}, TimerID : {""}, SignalName : {""}, ActivityName : {""}]
    \cup
    [EventType : {EventTypeTimerFired},
     EventID : {1}, TimerID : {ContinueTimer}, SignalName : {""}, ActivityName : {""}]
    \cup
    [EventType : {EventTypeWorkflowExecutionSignaled},
     EventID : {1}, TimerID : {""}, SignalName : SignalNames, ActivityName : {""}]
    \cup
    [EventType : {EventTypeActivityTaskCompleted, EventTypeActivityTaskFailed,
                  EventTypeActivityTaskTimedOut, EventTypeActivityTaskCanceled},
     EventID : {1}, TimerID : {""}, SignalName : {""}, ActivityName : ActivityNames]

\* ctx.ActivityInfo(h): the registry's entry for the activity of event e
ActivityInfo(c, e) == [Name |-> e.ActivityName]

\* ctx.ContinueDecision, ctx.Goto, ctx.Complete
ContinueDecision(d, ds) == ContinueOutcome(d, ds)

Goto(s, d, ds) == TransitionOutcome(d, s, ds)

CompleteWorkflow(d) ==
    CompleteOutcome(d, <<[DecisionType |-> "CompleteWorkflowExecution"]>>)

\* a PredicateFunc over the data
Predicates == {"zero", "nonzero"}

predicate(p, x) == IF p = "zero" THEN x = 0 ELSE x # 0

\* lines 201-294: the filter of each combinator
OnStarted(e) == e.EventType = EventTypeWorkflowExecutionStarted

OnChildStarted(e) == e.EventType = EventTypeChildWorkflowExecutionStarted

OnData(p, x) == predicate(p, x)

OnSignalReceived(signalName, e) ==
    /\ e.EventType = EventTypeWorkflowExecutionSignaled
    /\ e.SignalName = signalName

OnSignalSent(signalName, e) == e.EventType = EventTypeExternalWorkflowExecutionSignaled

OnSignalFailed(signalName, e) == e.EventType = EventTypeSignalExternalWorkflowExecutionFailed

OnActivityCompleted(activityName, c, e) ==
    /\ e.EventType = EventTypeActivityTaskCompleted
    /\ ActivityInfo(c, e).Name = activityName

OnActivityFailedNoTimeout(activityName, c, e) ==
    /\ e.EventType \in {EventTypeActivityTaskFailed, EventTypeActivityTaskCanceled}
    /\ ActivityInfo(c, e).Name = activityName

OnActivityFailed(activityName, c, e) ==
    /\ e.EventType \in {EventTypeActivityTaskFailed, EventTypeActivityTaskTimedOut,
                        EventTypeActivityTaskCanceled}
    /\ ActivityInfo(c, e).Name = activityName

OnTypes == {"OnStarted", "OnChildStarted", "OnData", "OnSignalReceived", "OnSignalSent",
            "OnSignalFailed", "OnActivityCompleted", "OnActivityFailed"}

\* does combinator d delegate to its nested deciders for (c, e, x)
Matches(d, c, e, x) ==
    CASE d.type = "OnStarted" -> OnStarted(e)
      [] d.type = "OnChildStarted" -> OnChildStarted(e)
      [] d.type = "OnData" -> OnData(d.arg, x)
      [] d.type = "OnSignalReceived" -> OnSignalReceived(d.arg, e)
      [] d.type = "OnSignalSent" -> OnSignalSent(d.arg, e)
      [] d.type = "OnSignalFailed" -> OnSignalFailed(d.arg, e)
      [] d.type = "OnActivityCompleted" -> OnActivityCompleted(d.arg, c, e)
      [] d.type = "OnActivityFailed" -> OnActivityFailed(d.arg, c, e)

\* the callbacks a leaf builder wraps: what they return, how they change the data
DecisionFuncs == [fn : {"DecisionFunc"}, decision : {Activity("a1"), Activity("a2")}]

MultiDecisionFuncs ==
    [fn : {"MultiDecisionFunc"},
     decisions : {<<>>, <<Activity("a1")>>, <<Activity("a2"), Activity("a1")>>}]

StateFuncs == [fn : {"StateFunc"}, upd : {"keep", "bump"}]

\* lines 296-343: each builder's outcome and the callback invocations it makes
AddDecision(decisionFn, x) ==
    [out |-> ContinueDecision(x, Append(EmptyDecisions, decisionFn.decision)),
     calls |-> <<[d |-> decisionFn, data |-> x]>>]

AddDecisionsDropped(signalFn, x) ==
    [out |-> ContinueDecision(x, EmptyDecisions),
     calls |-> <<[d |-> signalFn, data |-> x]>>]

AddDecisions(signalFn, x) ==
    [out |-> ContinueDecision(x, EmptyDecisions \o signalFn.decisions),
     calls |-> <<[d |-> signalFn, data |-> x]>>]

UpdateState(updateFunc, x) ==
    [out |-> ContinueDecision(Upd(updateFunc.upd, x), EmptyDecisions),
     calls |-> <<[d |-> updateFunc, data |-> x]>>]

Transition(toState, x) ==
    [out |-> Goto(toState, x, EmptyDecisions), calls |-> <<>>]

Complete(x) == [out |-> CompleteWorkflow(x), calls |-> <<>>]

StayBuilder(x) == [out |-> Stay(x, EmptyDecisions), calls |-> <<>>]

\* lines 66-73: the catch-all decider and what it returns
DefaultDeciderRule == [type |-> "DefaultDecider", arg |-> "", deciders |-> <<>>]

DefaultDecider(x) == Stay(x, EmptyDecisions)

\* the rules nested in a combinator
NestedRules == {r \in Rules : r.kind = "Continue" => r.decisions = <<Activity("a1")>>}

\* the deciders a caller can build from the combinators and leaf builders
Builders ==
    [type : {"OnStarted", "OnChildStarted"}, arg : {""},
     deciders : SeqsUpTo(NestedRules, MaxNested)]
    \cup [type : {"OnData"}, arg : Predicates, deciders : SeqsUpTo(NestedRules, MaxNested)]
    \cup [type : {"OnSignalReceived", "OnSignalSent", "OnSignalFailed"},
          arg : SignalNames, deciders : SeqsUpTo(NestedRules, MaxNested)]
    \cup [type : {"OnActivityCompleted", "OnActivityFailed"},
          arg : ActivityNames, deciders : SeqsUpTo(NestedRules, MaxNested)]
    \cup [type : {"AddDecision"}, arg : DecisionFuncs, deciders : {<<>>}]
    \cup [type : {"AddDecisions"}, arg : MultiDecisionFuncs, deciders : {<<>>}]
    \cup [type : {"UpdateState"}, arg : StateFuncs, deciders : {<<>>}]
    \cup [type : {"Transition"}, arg : StateNames, deciders : {<<>>}]
    \cup [type : {"Complete", "Stay"}, arg : {""}, deciders : {<<>>}]

RECURSIVE Apply(_, _, _, _)
RECURSIVE DecideFrom(_, _, _, _, _, _)

\* line 35: d(ctx, h, data), with the invocations it makes
Apply(d, c, e, x) ==
    CASE d.type = "rule" ->
            [out |-> RuleOutcome(d, x), calls |-> <<[d |-> d, data |-> x]>>]
      [] d.type = "handleContinuationTimer" ->
            [out |-> handleContinuationTimer(c, e, x, d.timerRetrySeconds),
             calls |-> <<[d |-> d, data |-> x]>>]
      [] d.type = "handleContinuationSignal" ->
            [out |-> handleContinuationSignal(c, e, x, d.timerRetrySeconds),
             calls |-> <<[d |-> d, data |-> x]>>]
      [] d.type = "signalContinuationWhenHistoryLarge" ->
            [out |-> signalContinuationWhenHistoryLarge(c, e, x, d.historySize),
             calls |-> <<[d |-> d, data |-> x]>>]
      [] d.type = "composed" ->
            DecideFrom(d.deciders, 1, c, e, [decisions |-> EmptyDecisions, data |-> x], <<>>)
      [] d.type \in OnTypes ->
            IF Matches(d, c, e, x)
            THEN DecideFrom(d.deciders, 1, c, e,
                            [decisions |-> EmptyDecisions, data |-> x], <<>>)
            ELSE [out |-> Pass, calls |-> <<>>]
      [] d.type = "AddDecision" -> AddDecision(d.arg, x)
      [] d.type = "AddDecisions" -> AddDecisions(d.arg, x)
      [] d.type = "UpdateState" -> UpdateState(d.arg, x)
      [] d.type = "Transition" -> Transition(d.arg, x)
      [] d.type = "Complete" -> Complete(x)
      [] d.type = "Stay" -> StayBuilder(x)
      [] d.type = "DefaultDecider" ->
            [out |-> DefaultDecider(x), calls |-> <<[d |-> d, data |-> x]>>]

\* the loop of lines 34-54 from index i on, then lines 55-58
DecideFrom(ds, i, c, e, acc, calls) ==
    IF i > Len(ds) THEN [out |-> FallThrough(acc), calls |-> calls]
    ELSE LET r == Apply(ds[i], c, e, acc.data)
             o == r.out
             made == calls \o r.calls
         IN IF IsPass(o) THEN DecideFrom(ds, i + 1, c, e, SkipPass(acc), made)
            ELSE LET next == Contribute(acc, o)
                 IN IF KeepsGoing(o)
                    THEN DecideFrom(ds, i + 1, c, e, next, made)
                    ELSE [out |-> Terminate(o, next), calls |-> made]

Decide(ds, c, e, x) ==
    DecideFrom(ds, 1, c, e, [decisions |-> EmptyDecisions, data |-> x], <<>>)

----------------------------------------------------------------------------
(* Typed adapters: typeCheck and marshalledFunc *)

MaxArgs == 3   \* most arguments of a callback handed to a typed adapter
MaxRets == 1   \* most return values of such a callback

\* A Go type: its identity (import path and name) and what reflect's
\* Type.String() prints for it, which shortens the import path to the package
\* name and so is not unique among types.
FSMContextT == [path |-> "swfsm/fsm.FSMContext", str |-> "*fsm.FSMContext"]
HistoryEventT == [path |-> "aws-sdk-go/gen/swf.HistoryEvent", str |-> "swf.HistoryEvent"]
PayloadA == [path |-> "app/model.State", str |-> "*model.State"]
PayloadB == [path |-> "vendor/model.State", str |-> "*model.State"]
OutcomeT == [path |-> "swfsm/fsm.Outcome", str |-> "fsm.Outcome"]
DecisionT == [path |-> "aws-sdk-go/gen/swf.Decision", str |-> "swf.Decision"]
DecisionsT == [path |-> "[]aws-sdk-go/gen/swf.Decision", str |-> "[]swf.Decision"]
BoolT == [path |-> "bool", str |-> "bool"]

ArgTypes == {FSMContextT, HistoryEventT, PayloadA, PayloadB}
RetTypes == {OutcomeT, DecisionT, DecisionsT, BoolT}
PayloadTypes == {PayloadA, PayloadB}

Adapters == {"Decider", "DecisionFunc", "MultiDecisionFunc", "StateFunc", "PredicateFunc"}

\* the values a caller may hand to an adapter: a non-function, or a function
Callbacks ==
    {[kind |-> "Struct", in |-> <<>>, out |-> <<>>]}
    \cup [kind : {"Func"}, in : SeqsUpTo(ArgTypes, MaxArgs), out : SeqsUpTo(RetTypes, MaxRets)]

\* lines 99-101: reflect.TypeOf(t.typed).String()
typeArg(payload) == payload.str

\* lines 163-199: "ok", or "panic"
typeCheck(typedFunc, in, out) ==
    IF typedFunc.kind # "Func" THEN "panic"
    ELSE IF Len(in) # Len(typedFunc.in) THEN "panic"
    ELSE IF \E i \in 1..Len(in) : in[i] # typedFunc.in[i].str THEN "panic"
    ELSE IF Len(out) # Len(typedFunc.out) THEN "panic"
    ELSE IF \E i \in 1..Len(out) : out[i] # typedFunc.out[i].str THEN "panic"
    ELSE "ok"

\* lines 105, 111, 117, 123, 129: the strings each adapter asks typeCheck for
CheckedIn(adapter, payload) ==
    IF adapter = "PredicateFunc" THEN <<typeArg(payload)>>
    ELSE <<"*fsm.FSMContext", "swf.HistoryEvent", typeArg(payload)>>

CheckedOut(adapter) ==
    CASE adapter = "Decider" -> <<"fsm.Outcome">>
      [] adapter = "DecisionFunc" -> <<"swf.Decision">>
      [] adapter = "MultiDecisionFunc" -> <<"[]swf.Decision">>
      [] adapter = "StateFunc" -> <<>>
      [] adapter = "PredicateFunc" -> <<"bool">>

\* lines 104-131: construction of an adapter
Construct(adapter, payload, fn) ==
    typeCheck(fn, CheckedIn(adapter, payload), CheckedOut(adapter))

\* lines 137-161: the types of the values m.v.Call is given, and the type the
\* result is asserted to have
CallArgs(adapter, payload) ==
    IF adapter = "PredicateFunc" THEN <<payload>>
    ELSE <<FSMContextT, HistoryEventT, payload>>

AssertedOut(adapter) ==
    CASE adapter = "Decider" -> <<OutcomeT>>
      [] adapter = "DecisionFunc" -> <<DecisionT>>
      [] adapter = "MultiDecisionFunc" -> <<DecisionsT>>
      [] adapter = "StateFunc" -> <<>>
      [] adapter = "PredicateFunc" -> <<BoolT>>

\* reflect.Value.Call panics on a wrong argument count or an argument whose
\* type is not the parameter's; indexing or asserting the result panics when
\* it is missing or of another type
marshalledFunc(adapter, payload, fn) ==
    LET args == CallArgs(adapter, payload)
        want == AssertedOut(adapter)
    IN IF fn.kind # "Func" THEN "panic"
       ELSE IF Len(args) # Len(fn.in) THEN "panic"
       ELSE IF \E i \in 1..Len(args) : args[i] # fn.in[i] THEN "panic"
       ELSE IF Len(fn.out) < Len(want) THEN "panic"
       ELSE IF \E i \in 1..Len(want) : fn.out[i] # want[i] THEN "panic"
       ELSE "ok"

----------------------------------------------------------------------------
(* Dispatchers under testDispatcher *)

NumGoroutines == 2   \* BoundedGoroutineDispatcher.NumGoroutines
TotalTasks == 3      \* totalTasks of testDispatcher
NumProducers == 2    \* goroutines calling DispatchTask
QueueCap == 1        \* capacity of the bounded dispatcher's queue

Tasks == 1..TotalTasks
Producers == 1..NumProducers
Workers == 1..NumGoroutines

Policies == {"calling", "new", "bounded"}

DispatchIdle(p) ==
    /\ policy = p
    /\ pcs = [q \in Producers |-> 0]
    /\ running = {}
    /\ tasks = <<>>
    /\ workers = [w \in Workers |-> 0]
    /\ dispatched = {}
    /\ handled = [t \in Tasks |-> 0]
    /\ tasksHandled = 0
    /\ done = FALSE
    /\ failed = {}
    /\ caller = [t \in Tasks |-> 0]

\* line 451: atomic.AddInt32(&tasksHandled, 1)
AddInt32Lost(n) == n

AddInt32(n) == n + 1

\* lines 450-455: the handler's effect when it completes for task t
Handler(t) ==
    /\ handled' = [handled EXCEPT ![t] = @ + 1]
    /\ tasksHandled' = AddInt32(tasksHandled)
    /\ done' = (done \/ AddInt32(tasksHandled) = TotalTasks)
    /\ UNCHANGED failed

\* lines 457-459: the tasks are dispatched one after the other; task t is the
\* t-th DispatchTask call
IsNextTask(t) == t = Cardinality(dispatched) + 1

\* DispatchTask(task, handler) was called by p for t
Called(p, t) ==
    /\ dispatched' = dispatched \cup {t}
    /\ caller' = [caller EXCEPT ![t] = p]

\* the inline policy: the caller is inside DispatchTask, running handler(t)
CallerReturnsAtOnce(t) == 0

CallerRunsHandler(t) == t

\* the unbounded policy: go handler(t), whatever is already running
SpawnLimited(t) ==
    IF Cardinality(running) < NumGoroutines THEN running \cup {t} ELSE running

Spawn(t) == running \cup {t}

\* the bounded policy: what a worker does after its handler invocation failed
WorkerDiesOnFailure(w) == -1

WorkerAfterFailure(w) == 0

\* a pool worker may receive from the queue only between handler invocations
WorkerFreeAlways(w) == TRUE

WorkerFree(w) == workers[w] = 0

\* lines 457-459 with CallingGoroutineDispatcher: handler(task) starts on the
\* caller's goroutine
DispatchCalling(p, t) ==
    /\ policy = "calling"
    /\ pcs[p] = 0
    /\ IsNextTask(t)
    /\ Called(p, t)
    /\ pcs' = [pcs EXCEPT ![p] = CallerRunsHandler(t)]
    /\ running' = running \cup {t}
    /\ UNCHANGED <<policy, tasks, workers, handled, tasksHandled, done, failed>>
    /\ UNCHANGED deciderVars

\* the inline handler completes and DispatchTask returns to the caller
ReturnCalling(p) ==
    /\ policy = "calling"
    /\ pcs[p] # 0
    /\ Handler(pcs[p])
    /\ running' = running \ {pcs[p]}
    /\ pcs' = [pcs EXCEPT ![p] = 0]
    /\ UNCHANGED <<policy, tasks, workers, dispatched, caller>>
    /\ UNCHANGED deciderVars

\* lines 457-459 with NewGoroutineDispatcher: go handler(task), then return
DispatchNew(p, t) ==
    /\ policy = "new"
    /\ IsNextTask(t)
    /\ Called(p, t)
    /\ running' = Spawn(t)
    /\ UNCHANGED <<policy, pcs, tasks, workers, handled, tasksHandled, done, failed>>
    /\ UNCHANGED deciderVars

\* the goroutine spawned for task t completes its handler
FinishNew(t) ==
    /\ policy = "new"
    /\ t \in running
    /\ Handler(t)
    /\ running' = running \ {t}
    /\ UNCHANGED <<policy, pcs, tasks, workers, dispatched, caller>>
    /\ UNCHANGED deciderVars

\* lines 457-459 with BoundedGoroutineDispatcher: enqueue, blocking while the
\* queue is full
DispatchBounded(p, t) ==
    /\ policy = "bounded"
    /\ IsNextTask(t)
    /\ Len(tasks) < QueueCap
    /\ Called(p, t)
    /\ tasks' = Append(tasks, t)
    /\ UNCHANGED <<policy, pcs, running, workers, handled, tasksHandled, done, failed>>
    /\ UNCHANGED deciderVars

\* a pool worker receives the next task and invokes the handler on it
WorkerTake(w) ==
    /\ policy = "bounded"
    /\ WorkerFree(w)
    /\ tasks # <<>>
    /\ workers' = [workers EXCEPT ![w] = Head(tasks)]
    /\ running' = running \cup {Head(tasks)}
    /\ tasks' = Tail(tasks)
    /\ UNCHANGED <<policy, pcs, dispatched, handled, tasksHandled, done, failed, caller>>
    /\ UNCHANGED deciderVars

\* a pool worker's handler invocation completes; the worker loops
WorkerFinish(w) ==
    /\ policy = "bounded"
    /\ workers[w] > 0
    /\ workers[w] \in running
    /\ Handler(workers[w])
    /\ running' = running \ {workers[w]}
    /\ workers' = [workers EXCEPT ![w] = 0]
    /\ UNCHANGED <<policy, pcs, tasks, dispatched, caller>>
    /\ UNCHANGED deciderVars

InitDispatch ==
    /\ deciders = <<>>
    /\ ctx = [State |-> "working", WorkflowID |-> "wf-1", RunID |-> "run-1",
              ActivitiesInfo |-> {}]
    /\ h = NoEvent
    /\ data = 0
    /\ outcome = NoOutcome
    /\ invoked = <<>>
    /\ typed = NoTyped
    /\ swf = NoService
    /\ \E p \in Policies : DispatchIdle(p)

NextDispatch ==
    \/ \E p \in Producers, t \in Tasks : DispatchCalling(p, t)
    \/ \E p \in Producers : ReturnCalling(p)
    \/ \E p \in Producers, t \in Tasks : DispatchNew(p, t)
    \/ \E t \in Tasks : FinishNew(t)
    \/ \E p \in Producers, t \in Tasks : DispatchBounded(p, t)
    \/ \E w \in Workers : WorkerTake(w)
    \/ \E w \in Workers : WorkerFinish(w)

SpecDispatch == InitDispatch /\ [][NextDispatch]_vars

\* every started goroutine and every pool worker keeps being scheduled
FairDispatch ==
    /\ \A p \in Producers : WF_vars(ReturnCalling(p))
    /\ \A t \in Tasks : WF_vars(FinishNew(t))
    /\ \A w \in Workers : WF_vars(WorkerTake(w))
    /\ \A w \in Workers : WF_vars(WorkerFinish(w))

SpecDispatchFair == InitDispatch /\ [][NextDispatch]_vars /\ FairDispatch

----------------------------------------------------------------------------
(* Dispatchers with handlers that may fail *)

\* a handler invocation fails: it ends without completing, for that task only
HandlerFails(t) ==
    /\ failed' = failed \cup {t}
    /\ running' = running \ {t}
    /\ UNCHANGED <<handled, tasksHandled, done>>

\* inline policy: the failure reaches the caller of that DispatchTask
FailCalling(p) ==
    /\ policy = "calling"
    /\ pcs[p] # 0
    /\ HandlerFails(pcs[p])
    /\ pcs' = [pcs EXCEPT ![p] = 0]
    /\ UNCHANGED <<policy, tasks, workers, dispatched, caller>>
    /\ UNCHANGED deciderVars

\* unbounded policy: the failure ends the goroutine spawned for t
FailNew(t) ==
    /\ policy = "new"
    /\ t \in running
    /\ HandlerFails(t)
    /\ UNCHANGED <<policy, pcs, tasks, workers, dispatched, caller>>
    /\ UNCHANGED deciderVars

\* bounded policy: the failure ends the invocation, not the worker
FailWorker(w) ==
    /\ policy = "bounded"
    /\ workers[w] > 0
    /\ workers[w] \in running
    /\ HandlerFails(workers[w])
    /\ workers' = [workers EXCEPT ![w] = WorkerAfterFailure(w)]
    /\ UNCHANGED <<policy, pcs, tasks, dispatched, caller>>
    /\ UNCHANGED deciderVars

NextDispatchFail ==
    \/ \E p \in Producers, t \in Tasks : DispatchCalling(p, t)
    \/ \E p \in Producers : ReturnCalling(p)
    \/ \E p \in Producers, t \in Tasks : DispatchNew(p, t)
    \/ \E t \in Tasks : FinishNew(t)
    \/ \E p \in Producers, t \in Tasks : DispatchBounded(p, t)
    \/ \E w \in Workers : WorkerTake(w)
    \/ \E w \in Workers : WorkerFinish(w)
    \/ \E p \in Producers : FailCalling(p)
    \/ \E t \in Tasks : FailNew(t)
    \/ \E w \in Workers : FailWorker(w)

SpecDispatchFailFair == InitDispatch /\ [][NextDispatchFail]_vars /\ FairDispatch

----------------------------------------------------------------------------
(* Specification of a ComposedDecider over caller-supplied rules *)

ComposeEvents == {e \in Events : e.EventID = 1 /\ e.TimerID # "other-timer"
                                  /\ e.SignalName = ""}

ComposeContexts == {c \in Contexts : c.ActivitiesInfo = {} /\ c.State = "working"}

\* NewComposedDecider(deciders...)
Init ==
    /\ deciders \in RuleLists
    /\ ctx \in ComposeContexts
    /\ h = NoEvent
    /\ data = 0
    /\ outcome = NoOutcome
    /\ invoked = <<>>
    /\ typed = NoTyped
    /\ swf = NoService
    /\ DispatchIdle("none")

\* one call of the composed Decider: c.Decide(ctx, h, data)
DecideEvent ==
    \E e \in ComposeEvents, x \in Data :
        LET r == Decide(deciders, ctx, e, x)
        IN /\ h' = e
           /\ data' = x
           /\ outcome' = r.out
           /\ invoked' = r.calls
           /\ UNCHANGED <<deciders, ctx, typed, swf>>
           /\ UNCHANGED dispatchVars

Next == DecideEvent

Spec == Init /\ [][Next]_vars

----------------------------------------------------------------------------
(* Specification of ManagedContinuations *)

\* ManagedContinuations(historySize, timerRetrySeconds)
InitMC ==
    /\ \E historySize \in 0..MaxHistorySize, timerRetrySeconds \in RetrySeconds :
          deciders = ManagedContinuations(historySize, timerRetrySeconds)
    /\ ctx \in Contexts
    /\ h = NoEvent
    /\ data = 0
    /\ outcome = NoOutcome
    /\ invoked = <<>>
    /\ typed = NoTyped
    /\ swf = NoService
    /\ DispatchIdle("none")

DecideManaged ==
    \E e \in Events, x \in Data :
        LET r == Decide(deciders, ctx, e, x)
        IN /\ h' = e
           /\ data' = x
           /\ outcome' = r.out
           /\ invoked' = r.calls
           /\ UNCHANGED <<deciders, ctx, typed, swf>>
           /\ UNCHANGED dispatchVars

NextMC == DecideManaged

SpecMC == InitMC /\ [][NextMC]_vars

----------------------------------------------------------------------------
(* Specification of the typed adapters *)

\* Typed(payload) and a value about to be handed to one of its adapters
InitTyped ==
    /\ typed \in [adapter : Adapters, payload : PayloadTypes, fn : Callbacks,
                  built : {"none"}, call : {"none"}]
    /\ deciders = <<>>
    /\ ctx = [State |-> "working", WorkflowID |-> "wf-1", RunID |-> "run-1",
              ActivitiesInfo |-> {}]
    /\ h = NoEvent
    /\ data = 0
    /\ outcome = NoOutcome
    /\ invoked = <<>>
    /\ swf = NoService
    /\ DispatchIdle("none")

\* t.Decider(fn), t.DecisionFunc(fn), ...: typeCheck, then wrap
ConstructAdapter ==
    /\ typed.built = "none"
    /\ typed' = [typed EXCEPT !.built = Construct(typed.adapter, typed.payload, typed.fn)]
    /\ UNCHANGED <<deciders, ctx, h, data, outcome, invoked, swf>>
    /\ UNCHANGED dispatchVars

\* the wrapped callback is invoked with the context, an event and the payload
InvokeAdapter ==
    /\ typed.built = "ok"
    /\ typed.call = "none"
    /\ typed' = [typed EXCEPT !.call = marshalledFunc(typed.adapter, typed.payload, typed.fn)]
    /\ UNCHANGED <<deciders, ctx, h, data, outcome, invoked, swf>>
    /\ UNCHANGED dispatchVars

NextTyped == ConstructAdapter \/ InvokeAdapter

SpecTyped == InitTyped /\ [][NextTyped]_vars

----------------------------------------------------------------------------
(* Specification of ManagedContinuations in a running execution *)

\* the id of the next history event; ids past MaxEventID are folded onto it
NextEventID == IF h = NoEvent THEN 1
               ELSE IF h.EventID < MaxEventID THEN h.EventID + 1 ELSE MaxEventID

ArmsContinueTimer(ds) ==
    \E k \in 1..Len(ds) : ds[k].DecisionType = "StartTimer" /\ ds[k].TimerID = ContinueTimer

ContinuesAsNew(ds) ==
    \E k \in 1..Len(ds) : ds[k].DecisionType = "ContinueAsNewWorkflowExecution"

InitCont ==
    /\ \E historySize \in 0..MaxHistorySize, timerRetrySeconds \in RetrySeconds :
          deciders = ManagedContinuations(historySize, timerRetrySeconds)
    /\ ctx \in Contexts
    /\ h = NoEvent
    /\ data = 0
    /\ outcome = NoOutcome
    /\ invoked = <<>>
    /\ typed = NoTyped
    /\ swf = NoService
    /\ DispatchIdle("none")

\* a decision task for event e: the decider stack runs, and the service
\* carries out the decisions it returns
ProcessEvent(e, armed) ==
    LET r == Decide(deciders, ctx, e, data)
    IN /\ h' = e
       /\ outcome' = r.out
       /\ invoked' = r.calls
       /\ swf' = [timerArmed |-> armed \/ ArmsContinueTimer(r.out.decisions),
                  continued |-> ContinuesAsNew(r.out.decisions)]
       /\ UNCHANGED <<deciders, ctx, data, typed>>
       /\ UNCHANGED dispatchVars

\* the reserved continue signal arrives
ContinueSignalArrives ==
    /\ ~swf.continued
    /\ ProcessEvent([EventType |-> EventTypeWorkflowExecutionSignaled,
                     EventID |-> NextEventID, TimerID |-> "",
                     SignalName |-> ContinueSignal], swf.timerArmed)

\* the service fires the armed continue timer, which is then spent
ContinueTimerFires ==
    /\ ~swf.continued
    /\ swf.timerArmed
    /\ ProcessEvent([EventType |-> EventTypeTimerFired,
                     EventID |-> NextEventID, TimerID |-> ContinueTimer,
                     SignalName |-> ""], FALSE)

\* any other event of the history
OtherEventArrives ==
    /\ ~swf.continued
    /\ \E e \in Events :
          /\ e.EventID = NextEventID
          /\ ~(e.EventType = EventTypeTimerFired /\ e.TimerID = ContinueTimer)
          /\ ~(e.EventType = EventTypeWorkflowExecutionSignaled
               /\ e.SignalName = ContinueSignal)
          /\ ProcessEvent(e, swf.timerArmed)

\* an activity is scheduled: the outstanding-work registry grows
ActivityScheduled ==
    /\ ~swf.continued
    /\ \E a \in (1..MaxActivities) \ ctx.ActivitiesInfo :
          ctx' = [ctx EXCEPT !.ActivitiesInfo = @ \cup {a}]
    /\ UNCHANGED <<deciders, h, data, outcome, invoked, typed, swf>>
    /\ UNCHANGED dispatchVars

\* an activity completes, fails or times out: the registry shrinks
ActivityResolved ==
    /\ ~swf.continued
    /\ \E a \in ctx.ActivitiesInfo :
          ctx' = [ctx EXCEPT !.ActivitiesInfo = @ \ {a}]
    /\ UNCHANGED <<deciders, h, data, outcome, invoked, typed, swf>>
    /\ UNCHANGED dispatchVars

NextCont ==
    \/ ContinueSignalArrives
    \/ ContinueTimerFires
    \/ OtherEventArrives
    \/ ActivityScheduled
    \/ ActivityResolved

\* the service fires every armed timer
SpecContFair == InitCont /\ [][NextCont]_vars /\ WF_vars(ContinueTimerFires)

----------------------------------------------------------------------------
(* Specification of a decider built from a combinator or a leaf builder *)

InitBuild ==
    /\ \E b \in Builders : deciders = <<b>>
    /\ ctx \in ComposeContexts
    /\ h = NoEvent
    /\ data = 0
    /\ outcome = NoOutcome
    /\ invoked = <<>>
    /\ typed = NoTyped
    /\ swf = NoService
    /\ DispatchIdle("none")

\* one call of the built decider: d(ctx, h, data)
DecideBuilt ==
    \E e \in BuildEvents, x \in Data :
        LET r == Apply(deciders[1], ctx, e, x)
        IN /\ h' = e
           /\ data' = x
           /\ outcome' = r.out
           /\ invoked' = r.calls
           /\ UNCHANGED <<deciders, ctx, typed, swf>>
           /\ UNCHANGED dispatchVars

NextBuild == DecideBuilt

SpecBuild == InitBuild /\ [][NextBuild]_vars

----------------------------------------------------------------------------
(* Specification of a decider stack: nothing, one decider, or one decider
   followed by the catch-all DefaultDecider *)

\* the first decider of a stack: a combinator, a nested composed decider, or a
\* plain rule
StackRules ==
    {r \in NestedRules : (r.kind = "Continue" => r.upd = "bump")
                         /\ (r.kind = "Transition" => r.state = "done")}

StackFirst ==
    {b \in Builders : b.type \in OnTypes /\ \A k \in 1..Len(b.deciders) : b.deciders[k] \in StackRules}
    \cup [type : {"composed"}, arg : {""}, deciders : SeqsUpTo(StackRules, MaxNested)]
    \cup StackRules

Stacks ==
    {<<>>} \cup {<<f>> : f \in StackFirst} \cup {<<f, DefaultDeciderRule>> : f \in StackFirst}

\* NewComposedDecider(first, DefaultDecider())
InitStack ==
    /\ deciders \in Stacks
    /\ ctx \in ComposeContexts
    /\ h = NoEvent
    /\ data = 0
    /\ outcome = NoOutcome
    /\ invoked = <<>>
    /\ typed = NoTyped
    /\ swf = NoService
    /\ DispatchIdle("none")

\* one call of the stack: c.Decide(ctx, h, data)
DecideStack ==
    \E e \in BuildEvents, x \in Data :
        LET r == Decide(deciders, ctx, e, x)
        IN /\ h' = e
           /\ data' = x
           /\ outcome' = r.out
           /\ invoked' = r.calls
           /\ UNCHANGED <<deciders, ctx, typed, swf>>
           /\ UNCHANGED dispatchVars

NextStack == DecideStack

SpecStack == InitStack /\ [][NextStack]_vars

----------------------------------------------------------------------------
(* Properties of the composed Decider (specification Spec) *)

Decided == outcome # NoOutcome

Terminal(d) == d.kind \in {"Transition", "Complete"}

\* index of the first rule that returns Transition or Complete, 0 if none
FirstTerminal(ds) ==
    IF \E k \in 1..Len(ds) : Terminal(ds[k])
    THEN CHOOSE k \in 1..Len(ds) :
            Terminal(ds[k]) /\ \A j \in 1..(k - 1) : ~Terminal(ds[j])
    ELSE 0

\* the decisions of rules 1..n in declared order, Pass rules contributing nothing
RECURSIVE DecisionsOf(_, _)
DecisionsOf(ds, n) ==
    IF n = 0 THEN <<>>
    ELSE DecisionsOf(ds, n - 1)
         \o (IF ds[n].kind = "Pass" THEN <<>> ELSE ds[n].decisions)

\* C1: if rule i is the first to return Transition or Complete, the result's
\* decisions are the concatenation, in declared order, of the decisions of
\* rules 1..i, and exactly rules 1..i were invoked (none after i).
C1_ShortCircuit ==
    LET i == FirstTerminal(deciders)
    IN (Decided /\ i # 0) =>
          /\ outcome.decisions = DecisionsOf(deciders, i)
          /\ Len(invoked) = i
          /\ \A k \in 1..i : invoked[k].d = deciders[k]

C1_Witness ==
    /\ Decided
    /\ Len(deciders) = 3
    /\ FirstTerminal(deciders) = 2
    /\ deciders[1].kind = "Continue"
    /\ Len(deciders[1].decisions) = 2
    /\ Len(outcome.decisions) = 3
    /\ Len(invoked) = 2

\* C2: the outcome kind of the first rule that returns Transition or Complete
\* is the kind of the result: Transition with that rule's target state, or
\* Complete.
C2_KindPreserved ==
    LET i == FirstTerminal(deciders)
    IN (Decided /\ i # 0) =>
          /\ outcome.kind = deciders[i].kind
          /\ deciders[i].kind = "Transition" => outcome.state = deciders[i].state

\* the always-Pass rules removed
StripPass(ds) == SelectSeq(ds, LAMBDA d : d.kind # "Pass")

InsertAt(ds, p, d) == SubSeq(ds, 1, p - 1) \o <<d>> \o SubSeq(ds, p, Len(ds))

\* C7: always-Pass rules are transparent: the result for the rule list is the
\* result for the list with its always-Pass rules removed, and for the list
\* with one more always-Pass rule inserted at any position.
C7_PassTransparent ==
    Decided =>
        /\ outcome = Decide(StripPass(deciders), ctx, h, data).out
        /\ \A p \in 1..(Len(deciders) + 1) :
              outcome = Decide(InsertAt(deciders, p, PassRule), ctx, h, data).out

C7_Witness ==
    /\ Decided
    /\ Len(deciders) = 3
    /\ deciders[1].kind = "Continue" /\ deciders[1].upd = "bump"
    /\ deciders[2].kind = "Pass"
    /\ deciders[3].kind = "Transition"
    /\ data = 1
    /\ outcome.kind = "Transition"

\* C8: when every rule returns Pass (the empty list included) the result is
\* Continue with no decisions and the input data.
C8_Fallthrough ==
    (Decided /\ \A k \in 1..Len(deciders) : deciders[k].kind = "Pass") =>
        /\ outcome.kind = "Continue"
        /\ outcome.decisions = <<>>
        /\ outcome.data = data

C8_Witness ==
    /\ Decided
    /\ Len(deciders) = 2
    /\ \A k \in 1..Len(deciders) : deciders[k].kind = "Pass"
    /\ data = 1
    /\ outcome = ContinueOutcome(1, <<>>)

----------------------------------------------------------------------------
(* Properties of ManagedContinuations (specification SpecMC) *)

historySizeOf == deciders[3].historySize
timerRetrySecondsOf == deciders[1].timerRetrySeconds

IsContinueEvent ==
    \/ h.EventType = EventTypeTimerFired /\ h.TimerID = ContinueTimer
    \/ h.EventType = EventTypeWorkflowExecutionSignaled /\ h.SignalName = ContinueSignal

IsContinueAsNew(d) == d.DecisionType = "ContinueAsNewWorkflowExecution"

SelfSignal ==
    [DecisionType |-> "SignalExternalWorkflowExecution",
     SignalName |-> ContinueSignal,
     WorkflowID |-> ctx.WorkflowID,
     RunID |-> ctx.RunID]

\* strconv.Atoi on the characters of a non-negative number
RECURSIVE Atoi(_)
Atoi(cs) ==
    IF cs = <<>> THEN 0
    ELSE 10 * Atoi(SubSeq(cs, 1, Len(cs) - 1))
         + (CHOOSE v \in 0..9 : DigitChars[v + 1] = cs[Len(cs)])

IsRetryTimer(d) ==
    /\ d.DecisionType = "StartTimer"
    /\ d.TimerID = ContinueTimer
    /\ Atoi(d.StartToFireTimeout) = timerRetrySecondsOf

\* C3: a continue-as-new decision appears in the result only if the
\* outstanding-work registry is empty.
C3_NoTruncation ==
    Decided =>
        ((\E k \in 1..Len(outcome.decisions) : IsContinueAsNew(outcome.decisions[k]))
            => ctx.ActivitiesInfo = {})

C3_Witness ==
    /\ Decided
    /\ IsContinueEvent
    /\ ctx.ActivitiesInfo # {}
    /\ Len(outcome.decisions) > 0

\* C4 as stated: a reserved continue event with an empty registry yields
\* exactly one decision, continue-as-new with the current state name, whatever
\* the event id and the threshold.
C4_ExactlyOneDecision ==
    (Decided /\ IsContinueEvent /\ ctx.ActivitiesInfo = {}) =>
        outcome.decisions = <<ContinueWorkflowDecision(ctx.State)>>

\* C4 amended: a reserved continue event with an empty registry yields the
\* continue-as-new decision with the current state name first; it is the only
\* decision when the event id is at most the threshold, and is followed by
\* exactly the self-signal decision when the event id exceeds the threshold.
C4_ContinueAsNewFirst ==
    (Decided /\ IsContinueEvent /\ ctx.ActivitiesInfo = {}) =>
        outcome.decisions =
            <<ContinueWorkflowDecision(ctx.State)>>
            \o (IF h.EventID > historySizeOf THEN <<SelfSignal>> ELSE <<>>)

C4_Witness ==
    /\ Decided
    /\ h.EventType = EventTypeTimerFired /\ h.TimerID = ContinueTimer
    /\ ctx.ActivitiesInfo = {}
    /\ ctx.State = "done"
    /\ h.EventID > historySizeOf
    /\ Len(outcome.decisions) = 2
    /\ IsContinueAsNew(outcome.decisions[1])

\* C5 as stated: a reserved continue event with a non-empty registry yields
\* exactly one decision, start-timer for the continue timer with the retry
\* delay.
C5_ExactlyOneTimer ==
    (Decided /\ IsContinueEvent /\ ctx.ActivitiesInfo # {}) =>
        /\ Len(outcome.decisions) = 1
        /\ IsRetryTimer(outcome.decisions[1])

\* C5 amended: a reserved continue event with a non-empty registry yields the
\* start-timer decision (continue timer, configured retry delay) first; it is
\* the only decision when the event id is at most the threshold, and is
\* followed by exactly the self-signal decision when the id exceeds it.
C5_RetryTimerFirst ==
    (Decided /\ IsContinueEvent /\ ctx.ActivitiesInfo # {}) =>
        /\ Len(outcome.decisions) = (IF h.EventID > historySizeOf THEN 2 ELSE 1)
        /\ IsRetryTimer(outcome.decisions[1])
        /\ h.EventID > historySizeOf => outcome.decisions[2] = SelfSignal

C5_Witness ==
    /\ Decided
    /\ h.EventType = EventTypeWorkflowExecutionSignaled /\ h.SignalName = ContinueSignal
    /\ ctx.ActivitiesInfo # {}
    /\ timerRetrySecondsOf = 30
    /\ h.EventID <= historySizeOf
    /\ Len(outcome.decisions) = 1
    /\ outcome.decisions[1].StartToFireTimeout = <<"3", "0">>

\* C6: for an event of any kind with id N and threshold T, the result holds a
\* signal decision to the same execution with the continue signal name
\* if and only if N > T.
C6_HistoryThreshold ==
    Decided =>
        ((\E k \in 1..Len(outcome.decisions) : outcome.decisions[k] = SelfSignal)
            <=> h.EventID > historySizeOf)

C6_Witness ==
    /\ Decided
    /\ h.EventID = historySizeOf
    /\ h.EventType = EventTypeTimerFired /\ h.TimerID = ContinueTimer
    /\ Len(outcome.decisions) = 1
    /\ outcome.decisions[1] # SelfSignal

----------------------------------------------------------------------------
(* Properties of the dispatchers (specifications SpecDispatch, SpecDispatchFair) *)

\* C9: under each policy every dispatched task is eventually handled, no task
\* is ever handled twice, and once all K tasks are dispatched the count of
\* handled tasks eventually equals K.
C9_ExactlyOnce ==
    /\ [](\A t \in Tasks : handled[t] <= 1 /\ (handled[t] = 1 => t \in dispatched))
    /\ \A t \in Tasks : (t \in dispatched) ~> (handled[t] = 1)
    /\ (dispatched = Tasks) ~> (tasksHandled = TotalTasks /\ done)

C9_Witness ==
    /\ policy = "bounded"
    /\ dispatched = Tasks
    /\ \A t \in Tasks : handled[t] = 1
    /\ tasksHandled = TotalTasks
    /\ done

\* C10: in the bounded pool at most N handler invocations execute at once.
C10_AtMostN ==
    policy = "bounded" => Cardinality(running) <= NumGoroutines

C10_Witness ==
    /\ policy = "bounded"
    /\ TotalTasks > NumGoroutines
    /\ Cardinality(running) = NumGoroutines
    /\ tasks # <<>>

----------------------------------------------------------------------------
(* Properties of the dispatchers with failing handlers (SpecDispatchFailFair) *)

Invoked(t) == handled[t] + (IF t \in failed THEN 1 ELSE 0)

----------------------------------------------------------------------------
(* Properties of the inline and unbounded dispatchers (SpecDispatch) *)

TasksOf(p) == {t \in dispatched : caller[t] = p}

\* the handlers of the tasks in S completed in the order of dispatch (tasks
\* are numbered in dispatch order)
InDispatchOrder(S) ==
    \A t1, t2 \in S : (t1 < t2 /\ handled[t2] = 1) => handled[t1] = 1

\* DispatchTask has returned for t
Returned(t) == t \in dispatched /\ \A p \in Producers : pcs[p] # t

C14_Unbounded ==
    policy = "new" =>
        /\ \A p \in Producers : pcs[p] = 0
        /\ running = {t \in dispatched : handled[t] = 0}

\* all K handlers executing at once, K above the pool size of the bounded policy
C14_Witness ==
    /\ policy = "new"
    /\ dispatched = Tasks
    /\ running = Tasks
    /\ TotalTasks > NumGoroutines

----------------------------------------------------------------------------
(* Threading and nesting in the composed Decider (specification Spec) *)

\* the data after rules 1..n ran on input x: that of the last non-Pass rule
RECURSIVE DataAfter(_, _, _)
DataAfter(ds, n, x) ==
    IF n = 0 THEN x
    ELSE IF ds[n].kind = "Pass" THEN DataAfter(ds, n - 1, x)
    ELSE Upd(ds[n].upd, DataAfter(ds, n - 1, x))

\* C15: every invoked sub-decider is called, in declared order, with the data
\* of the nearest preceding non-Pass outcome (the input data if none); when no
\* rule returns Transition or Complete all rules are invoked and the result is
\* Continue with the concatenated decisions and the last non-Pass rule's data.
C15_Threading ==
    Decided =>
        /\ \A k \in 1..Len(invoked) :
              /\ invoked[k].d = deciders[k]
              /\ invoked[k].data = DataAfter(deciders, k - 1, data)
        /\ FirstTerminal(deciders) = 0 =>
              /\ Len(invoked) = Len(deciders)
              /\ outcome.kind = "Continue"
              /\ outcome.decisions = DecisionsOf(deciders, Len(deciders))
              /\ outcome.data = DataAfter(deciders, Len(deciders), data)

C15_Witness ==
    /\ Decided
    /\ Len(deciders) = 3
    /\ deciders[1].kind = "Continue" /\ deciders[1].upd = "bump"
    /\ deciders[2].kind = "Pass"
    /\ deciders[3].kind = "Continue" /\ deciders[3].upd = "keep"
    /\ Len(deciders[1].decisions) = 1 /\ Len(deciders[3].decisions) = 2
    /\ data = 0
    /\ invoked[3].data = 1
    /\ outcome.data = 1
    /\ Len(outcome.decisions) = 3

\* NewComposedDecider over rules i+1..j, put in their place in the list
Nest(ds, i, j) ==
    SubSeq(ds, 1, i)
    \o <<[type |-> "composed", deciders |-> SubSeq(ds, i + 1, j)]>>
    \o SubSeq(ds, j + 1, Len(ds))

\* C17: for every split A ++ B ++ C of the rule list, the composed decider
\* over A ++ [composed decider over B] ++ C returns the same outcome (kind,
\* decisions, data, target state) and invokes the same sub-deciders with the
\* same data in the same order as the one over the flat list.
C17_Associative ==
    Decided =>
        \A i \in 0..Len(deciders) : \A j \in i..Len(deciders) :
            LET r == Decide(Nest(deciders, i, j), ctx, h, data)
            IN r.out = outcome /\ r.calls = invoked

C17_Witness ==
    /\ Decided
    /\ Len(deciders) = 3
    /\ deciders[1].kind = "Continue" /\ deciders[1].upd = "bump"
    /\ deciders[2].kind = "Transition" /\ deciders[2].state = "done"
    /\ deciders[3].kind = "Continue"
    /\ outcome = Decide(Nest(deciders, 1, 2), ctx, h, data).out
    /\ outcome.kind = "Transition"
    /\ Len(invoked) = 2

----------------------------------------------------------------------------
(* Frame of ManagedContinuations (specification SpecMC) *)

CatchAll ==
    [type |-> "rule", kind |-> "Continue", decisions |-> <<>>, upd |-> "keep", state |-> ""]

\* C19: ManagedContinuations always returns a Continue outcome carrying the
\* input data, never changes the context (state name, registry), and a rule
\* placed after it in a composition is still invoked.
C19_StaysPut ==
    /\ [](Decided =>
            /\ outcome.kind = "Continue"
            /\ outcome.data = data
            /\ LET r == Decide(<<[type |-> "composed", deciders |-> deciders], CatchAll>>,
                               ctx, h, data)
               IN /\ Len(r.calls) = Len(invoked) + 1
                  /\ r.calls[Len(r.calls)].d = CatchAll)
    /\ [][ctx' = ctx]_vars

C19_Witness ==
    /\ Decided
    /\ IsContinueEvent
    /\ ctx.ActivitiesInfo = {}
    /\ data = 1
    /\ outcome.kind = "Continue"
    /\ outcome.data = 1
    /\ IsContinueAsNew(outcome.decisions[1])

----------------------------------------------------------------------------
(* Properties of the typed adapters (specification SpecTyped) *)

\* the signature an adapter is meant for, as types
ExactIn(adapter, payload) == CallArgs(adapter, payload)

ExactSignature ==
    /\ typed.fn.kind = "Func"
    /\ typed.fn.in = ExactIn(typed.adapter, typed.payload)
    /\ typed.fn.out = AssertedOut(typed.adapter)

\* C13: a value that is not a function, or a function whose argument or
\* return types are not exactly those of the adapter for the payload type, is
\* rejected when the adapter is constructed, and so no adapter that was
\* constructed fails when it is invoked.
C13_RejectedAtConstruction ==
    /\ (typed.adapter # "none" /\ typed.built = "ok") => ExactSignature
    /\ (typed.adapter # "none") => typed.call # "panic"

----------------------------------------------------------------------------
(* Properties of ManagedContinuations in a running execution
   (specification SpecContFair) *)

\* C16: no continue event is answered with an empty decision list; after a
\* continue event the execution has continued or a continue timer is armed;
\* and if the outstanding-work registry eventually becomes and stays empty,
\* an armed continue timer leads to a continue-as-new decision.
C16_EventuallyContinued ==
    /\ []((Decided /\ IsContinueEvent) => outcome.decisions # <<>>)
    /\ []((Decided /\ IsContinueEvent) => (swf.continued \/ swf.timerArmed))
    /\ (<>[](ctx.ActivitiesInfo = {})) => [](swf.timerArmed => <>swf.continued)

\* the continuation was deferred to a retry timer and performed when it fired
C16_Witness ==
    /\ swf.continued
    /\ h.EventType = EventTypeTimerFired
    /\ h.TimerID = ContinueTimer
    /\ ContinuesAsNew(outcome.decisions)

----------------------------------------------------------------------------
(* Properties of the combinators and leaf builders (specification SpecBuild) *)

Built == deciders[1]

\* the event kinds each combinator is for
FilterKinds(type) ==
    CASE type = "OnStarted" -> {"WorkflowExecutionStarted"}
      [] type = "OnChildStarted" -> {"ChildWorkflowExecutionStarted"}
      [] type = "OnSignalReceived" -> {"WorkflowExecutionSignaled"}
      [] type = "OnSignalSent" -> {"ExternalWorkflowExecutionSignaled"}
      [] type = "OnSignalFailed" -> {"SignalExternalWorkflowExecutionFailed"}
      [] type = "OnActivityCompleted" -> {"ActivityTaskCompleted"}
      [] type = "OnActivityFailed" ->
            {"ActivityTaskFailed", "ActivityTaskTimedOut", "ActivityTaskCanceled"}

\* the filter of the built combinator on the event and data just decided
FilterMatches ==
    IF Built.type = "OnData"
    THEN (Built.arg = "zero" /\ data = 0) \/ (Built.arg = "nonzero" /\ data # 0)
    ELSE /\ h.EventType \in FilterKinds(Built.type)
         /\ Built.type = "OnSignalReceived" => h.SignalName = Built.arg
         /\ Built.type \in {"OnActivityCompleted", "OnActivityFailed"}
               => h.ActivityName = Built.arg

\* C18: an OnX combinator returns Pass and invokes no nested rule when the
\* event does not match its filter, and on a match returns exactly what a
\* composed Decider over its nested rules returns for the same context, event
\* and data (with the same invocations).
C18_EventMatching ==
    (Decided /\ Built.type \in OnTypes) =>
        IF FilterMatches
        THEN /\ outcome = Decide(Built.deciders, ctx, h, data).out
             /\ invoked = Decide(Built.deciders, ctx, h, data).calls
        ELSE /\ outcome = Pass
             /\ invoked = <<>>

\* a timed-out activity event reaches the nested rule of OnActivityFailed
C18_Witness ==
    /\ Decided
    /\ Built.type = "OnActivityFailed"
    /\ h.EventType = EventTypeActivityTaskTimedOut
    /\ h.ActivityName = Built.arg
    /\ Len(Built.deciders) = 1
    /\ invoked = <<[d |-> Built.deciders[1], data |-> data]>>
    /\ outcome.kind = "Transition"

\* C20: AddDecision returns Continue with the one decision of its callback and
\* the input data; AddDecisions returns Continue with its callback's decisions
\* in order; UpdateState and Stay return Continue with no decisions;
\* Transition(toState) returns a Transition to toState with no decisions;
\* Complete returns a Complete outcome; a builder that wraps a callback invokes
\* it exactly once, with the input data.
C20_LeafBuilders ==
    Decided =>
        /\ Built.type = "AddDecision" =>
              /\ outcome.kind = "Continue"
              /\ outcome.decisions = <<Built.arg.decision>>
              /\ outcome.data = data
        /\ Built.type = "AddDecisions" =>
              /\ outcome.kind = "Continue"
              /\ outcome.decisions = Built.arg.decisions
        /\ Built.type \in {"UpdateState", "Stay"} =>
              /\ outcome.kind = "Continue"
              /\ outcome.decisions = <<>>
        /\ Built.type = "Transition" =>
              /\ outcome.kind = "Transition"
              /\ outcome.state = Built.arg
              /\ outcome.decisions = <<>>
        /\ Built.type = "Complete" => outcome.kind = "Complete"
        /\ Built.type \in {"AddDecision", "AddDecisions", "UpdateState"} =>
              invoked = <<[d |-> Built.arg, data |-> data]>>

\* AddDecisions with a callback that returns two decisions
C20_Witness ==
    /\ Decided
    /\ Built.type = "AddDecisions"
    /\ Len(outcome.decisions) = 2
    /\ outcome.decisions = Built.arg.decisions
    /\ Len(invoked) = 1

----------------------------------------------------------------------------
(* Properties of a decider stack (specification SpecStack) *)

OutcomeKinds == {"Continue", "Transition", "Complete"}

\* what the first decider of the stack returned for the event just decided
FirstResult == Apply(deciders[1], ctx, h, data).out

\* C21: a composed Decider never returns Pass, whatever its rule list (the
\* empty list and lists whose rules all Pass included); a combinator whose
\* filter matched never returns Pass, even if all its nested rules Pass; and a
\* catch-all placed after a decider that did not end the composition is
\* invoked, with the data that decider left.
C21_NeverPass ==
    Decided =>
        /\ outcome.kind \in OutcomeKinds
        /\ (Len(deciders) >= 1 /\ deciders[1].type = "composed")
              => FirstResult.kind \in OutcomeKinds
        /\ (Len(deciders) >= 1 /\ deciders[1].type \in OnTypes /\ FilterMatches)
              => FirstResult.kind \in OutcomeKinds
        /\ (Len(deciders) = 2 /\ FirstResult.kind \in {"Pass", "Continue"})
              => /\ Len(invoked) >= 1
                 /\ invoked[Len(invoked)].d = DefaultDeciderRule
                 /\ invoked[Len(invoked)].data =
                       (IF FirstResult.kind = "Pass" THEN data ELSE FirstResult.data)

\* a matched OnStarted whose only nested rule Passes, followed by the catch-all
C21_Witness ==
    /\ Decided
    /\ Len(deciders) = 2
    /\ deciders[1].type = "OnStarted"
    /\ deciders[1].deciders = <<PassRule>>
    /\ h.EventType = EventTypeWorkflowExecutionStarted
    /\ FirstResult = ContinueOutcome(data, <<>>)
    /\ invoked = <<[d |-> PassRule, data |-> data], [d |-> DefaultDeciderRule, data |-> data]>>
    /\ outcome.kind = "Continue"

====
